---- MODULE Spec2Model ----
(***************************************************************************)
(* State-machine model of the batch pages of resize-tool-webapp:           *)
(* app/pages/VideoPage.tsx and app/pages/ImagePage.tsx (React components), *)
(* with the invokers resizeVideo / resizeImage seen from the orchestrator. *)
(*                                                                         *)
(* One step of the model is one JavaScript task: an event handler or the   *)
(* continuation of handleResizeClick after an await, run to completion,    *)
(* followed by the React commit of the state it set and by the effect      *)
(* cleanups that commit triggers.                                          *)
(***************************************************************************)
EXTENDS Integers, Sequences, FiniteSets, TLC

(***************************************************************************)
(* Bounds of the model.                                                    *)
(***************************************************************************)
MaxPick == 2        \* files in one pick of the main specification
MaxRuns == 2        \* batch runs started in one behaviour
MaxLogEvents == 1   \* engine log events during one resizeVideo call
MaxSelections == 2  \* file selections made in one behaviour
MaxPickSel == 6     \* files in one pick of the selection specification

(***************************************************************************)
(* Program constants.                                                      *)
(***************************************************************************)
VideoMAX_FILES == 3
ImageMAX_FILES == 5

MAX_FILES(p) == IF p = "video" THEN VideoMAX_FILES ELSE ImageMAX_FILES

supportedExtensions == <<"mp4", "mov", "webm">>
imageExtensions == <<"jpg", "jpeg", "png", "gif", "avif">>

Range(s) == {s[k] : k \in DOMAIN s}

Allowed(p) == IF p = "video" THEN Range(supportedExtensions)
                             ELSE Range(imageExtensions)

VARIABLES
  page,           \* which page component this behaviour is about
  mounted,        \* the component is mounted
  selectedFiles,  \* useState<File[]>
  width, height, fps,   \* useState<number | ''>
  results,        \* useState<ProcessingResult[]>
  isProcessing,   \* useState<boolean>
  error,          \* useState<string | null>, as the list of its lines
  run,            \* the pending handleResizeClick invocation (its closure)
  runCount,       \* batch runs started so far
  selCount,       \* file selections made so far
  probes,         \* image page: selections whose Promise.all is pending
  listeners,      \* video page: 'log' listeners registered on the engine
  nextUrl,        \* object URLs minted so far, plus one
  revoked,        \* object URLs passed to URL.revokeObjectURL
  revokedAgain,   \* object URLs passed to it more than once
  calls,          \* calls of the conversion invoker so far
  picked,         \* selection specification: the FileList of the event
  selPc,          \* selection specification: "picked", then "selected"
  resolved,       \* geometry specification: what the invoker resolved
  ffmpeg,         \* engine specification: the module singleton of videoutils
  callers,        \* engine specification: the handleResizeClick invocation
                  \* of each VideoPage component created so far
  generation,     \* engine specification: the component created last
  leaked,         \* transient object URLs whose operation completed without
                  \* URL.revokeObjectURL
  inputString,    \* Base64ImagePage: useState(''), as a prefix and a body
  result,         \* Base64ImagePage: useState<ImageResult | null>
  loading,        \* Base64ImagePage: useState(false)
  isMagickInitialized,  \* both tool pages: useState(false)
  magick,         \* both tool pages: the initMagick() of the mount effect
  selectedFile,   \* ImageConvertPage: useState<File | null>
  targetFormat,   \* ImageConvertPage: useState<string>('png')
  outputUrl,      \* ImageConvertPage: useState<string | null>
  job,            \* the pending handleConvert invocation of a tool page
  sample          \* decode specification: what inputString was written from

vars == <<page, mounted, selectedFiles, width, height, fps, results,
          isProcessing, error, run, runCount, selCount, probes, listeners, nextUrl,
          revoked, revokedAgain, calls, picked, selPc,
          resolved, ffmpeg, callers, generation, leaked,
          inputString, result, loading, isMagickInitialized, magick,
          selectedFile, targetFormat, outputUrl, job, sample>>

\* The state of the invokers taken alone.
invokerVars == <<resolved, ffmpeg, callers, generation>>

\* The state of the Base64 and format conversion pages taken alone.
toolVars == <<inputString, result, loading, isMagickInitialized, magick,
              selectedFile, targetFormat, outputUrl, job, sample>>

(***************************************************************************)
(* Values.                                                                 *)
(***************************************************************************)
Empty == <<>>             \* the '' of a number input; a number n is <<n>>
NoUrl == 0                \* outputUrl undefined
NoError == "none"         \* ProcessingResult.error undefined
NoBlob == "none"          \* outputBlob undefined
NoSize == <<>>            \* originalWidth / originalHeight undefined
NoPercent == -1           \* progressPercent undefined

\* A file name is the list of its dot-separated parts: name.split('.').
\* String.prototype.toLowerCase on the parts that occur.
toLowerCase(s) ==
  CASE s = "MP4" -> "mp4"
    [] s = "MOV" -> "mov"
    [] s = "WebM" -> "webm"
    [] s = "PNG" -> "png"
    [] s = "JPG" -> "jpg"
    [] s = "Jpeg" -> "jpeg"
    [] s = "GIF" -> "gif"
    [] s = "TXT" -> "txt"
    [] OTHER -> s

\* file.name.split('.').pop()?.toLowerCase()
fileExt(file) == toLowerCase(file.name[Len(file.name)])

File(name, size, ok) == [name |-> name, size |-> size, decodable |-> ok]

\* The files of the main specification: size is what the decoder reports
\* (videoWidth x videoHeight, img.width x img.height), decodable is whether
\* an Image of it fires onload, a <video> of it gets to know its metadata.
VideoFiles ==
  { File(<<"a", "mp4">>, <<2, 4>>, TRUE),
    File(<<"b", "MOV">>, <<4, 2>>, TRUE),
    File(<<"c", "webm">>, <<0, 0>>, FALSE) }

ImageFiles ==
  { File(<<"a", "png">>, <<2, 4>>, TRUE),
    File(<<"b", "JPG">>, <<0, 0>>, FALSE) }

FilesOf(p) == IF p = "video" THEN VideoFiles ELSE ImageFiles

SeqsUpTo(S, n) == UNION {[1..k -> S] : k \in 0..n}

\* What the number inputs are set to: in the main specification, and in the
\* specification of the validation.
ParamValues == {Empty, <<2>>}
ValParamValues == {Empty, <<-1>>, <<0>>, <<2>>}

\* The files of the selection specification.
SelVideoFiles ==
  { File(<<"a", "mp4">>, <<2, 4>>, TRUE),
    File(<<"b", "MOV">>, <<4, 4>>, TRUE),
    File(<<"notes", "txt">>, <<0, 0>>, FALSE),
    File(<<"clip", "webm", "bak">>, <<0, 0>>, FALSE) }

SelImageFiles ==
  { File(<<"a", "png">>, <<2, 4>>, TRUE),
    File(<<"b", "Jpeg">>, <<4, 4>>, TRUE),
    File(<<"notes", "txt">>, <<0, 0>>, FALSE),
    File(<<"pic", "gif", "bak">>, <<0, 0>>, FALSE) }

SelFilesOf(p) == IF p = "video" THEN SelVideoFiles ELSE SelImageFiles

(***************************************************************************)
(* Object URLs.  rv = [once |-> revoked, again |-> revokedAgain].          *)
(***************************************************************************)
revokeObjectURL(rv, url) ==
  IF url \in rv.once
    THEN [rv EXCEPT !.again = @ \cup {url}]
    ELSE [rv EXCEPT !.once = @ \cup {url}]

RECURSIVE RevokeEach(_, _)
RevokeEach(rv, urls) ==
  IF urls = <<>> THEN rv
  ELSE RevokeEach(revokeObjectURL(rv, Head(urls)), Tail(urls))

RECURSIVE OutputUrls(_)
\* results.filter(r => r.outputUrl).map(r => r.outputUrl)
OutputUrls(res) ==
  IF res = <<>> THEN <<>>
  ELSE IF Head(res).outputUrl # NoUrl
    THEN <<Head(res).outputUrl>> \o OutputUrls(Tail(res))
    ELSE OutputUrls(Tail(res))

\* VideoPage: the cleanup of the effect on [results], run with the results
\* array of the render that registered it: urlsToRevoke.forEach(revoke),
\* then results.forEach(r => revoke(r.outputUrl)).
VideoEffectCleanup(rv, res) ==
  RevokeEach(RevokeEach(rv, OutputUrls(res)), OutputUrls(res))

\* ImagePage: the cleanup of the mount effect, over latestResultsRef.current.
ImageUnmountCleanup(rv, res) == RevokeEach(rv, OutputUrls(res))

(***************************************************************************)
(* handleFileChange: the loop over the picked FileList.                    *)
(***************************************************************************)
ErrorLine(kind, name) == [kind |-> kind, name |-> name]

\* A mutation of AtCeiling: one file more than the maximum is accepted.
AtCeilingOffByOne(p, acceptedCount) == acceptedCount > MAX_FILES(p)

\* acceptedCount >= MAX_FILES
AtCeiling(p, acceptedCount) == acceptedCount >= MAX_FILES(p)

Supported(p, file) == fileExt(file) # "" /\ fileExt(file) \in Allowed(p)

RECURSIVE SelectLoop(_, _, _, _, _, _)
SelectLoop(p, files, i, newFiles, fileErrors, acceptedCount) ==
  IF i > Len(files)
    THEN [newFiles |-> newFiles, fileErrors |-> fileErrors]
  ELSE IF AtCeiling(p, acceptedCount)
    THEN SelectLoop(p, files, i + 1, newFiles,
                    Append(fileErrors, ErrorLine("too-many", files[i].name)),
                    acceptedCount)
  ELSE IF Supported(p, files[i])
    THEN SelectLoop(p, files, i + 1, Append(newFiles, files[i]), fileErrors,
                    acceptedCount + 1)
  ELSE SelectLoop(p, files, i + 1, newFiles,
                  Append(fileErrors, ErrorLine("unsupported", files[i].name)),
                  acceptedCount)

Select(p, files) == SelectLoop(p, files, 1, <<>>, <<>>, 0)

(***************************************************************************)
(* ProcessingResult and the state updaters of the two pages.               *)
(***************************************************************************)
\* A line of a progress log: a list of the pieces it is put together from.
Line(text) == <<text>>

ProcessingResult(file, status, log, err, size) ==
  [file |-> file, status |-> status, outputBlob |-> NoBlob,
   outputUrl |-> NoUrl, progressLog |-> log, error |-> err,
   progressPercent |-> 0, originalSize |-> size]

\* VideoPage handleResizeClick: selectedFiles.map(file => ({file, 'pending', ...}))
VideoInitialResults(files) ==
  [k \in DOMAIN files |->
     ProcessingResult(files[k], "pending", <<>>, NoError, NoSize)]

\* ImagePage handleResizeClick: results.map(r => ({...r, status, progressLog: [],
\* progressPercent: 0})); every other field of r is kept.
ImageInitialResults(res) ==
  [k \in DOMAIN res |->
     [res[k] EXCEPT !.status = IF res[k].status = "error" THEN "error"
                                                          ELSE "pending",
                    !.progressLog = <<>>,
                    !.progressPercent = 0]]

\* ImagePage handleFileChange: what Promise.all(newFiles.map(...)) resolves to.
ProbeResults(files) ==
  [k \in DOMAIN files |->
     IF files[k].decodable
       THEN ProcessingResult(files[k], "pending", <<>>, NoError, files[k].size)
       ELSE ProcessingResult(files[k], "error", <<Line("Failed to load image size")>>,
                             "Invalid image file", NoSize)]

FailedMessage(p) == IF p = "video"
  THEN "Video processing failed. Check progress log for details."
  ELSE "Image processing failed."
UnexpectedMessage == "An unexpected error occurred"

\* `Error: ${errorMessage}`
ErrorLog(msg) == <<"Error: ", msg>>

CompleteLine(p) == IF p = "video"
  THEN "Processing complete! Output video is ready."
  ELSE "Processing complete! Output image is ready."

\* The segment state st carries the component state as the updaters queued in
\* this task leave it: res (results), live (the component still renders),
\* and the URLs, calls and listeners of the task.
\* A state updater that writes results[j]: on an index the array does not
\* have, the updater (or the render of the item it creates without a file)
\* throws, and the component is torn down by the error boundary.
Put(st, j, item) ==
  IF ~st.live THEN st
  ELSE IF j \notin DOMAIN st.res THEN [st EXCEPT !.live = FALSE]
  ELSE [st EXCEPT !.res[j] = item]

Processing(st, j) ==
  Put(st, j, IF j \in DOMAIN st.res
               THEN [st.res[j] EXCEPT !.status = "processing",
                                      !.progressLog = <<Line("Starting process...")>>]
               ELSE <<>>)

\* updateProgress(fileIndex, message, percent); percent NoPercent is undefined
updateProgress(st, j, message, percent) ==
  IF st.live /\ j \in DOMAIN st.res
    THEN [st EXCEPT !.res[j] =
            [@ EXCEPT !.progressLog = Append(@, message),
                      !.progressPercent =
                         IF percent # NoPercent THEN percent ELSE @]]
    ELSE st

Success(st, j, blob, url) ==
  Put(st, j, IF j \in DOMAIN st.res
               THEN [st.res[j] EXCEPT !.status = "success",
                                      !.outputBlob = blob,
                                      !.outputUrl = url,
                                      !.progressLog = Append(@, Line(CompleteLine(page))),
                                      !.progressPercent = 100]
               ELSE <<>>)

Failure(st, j, msg) ==
  Put(st, j, IF j \in DOMAIN st.res
               THEN [st.res[j] EXCEPT !.status = "error",
                                      !.error = msg,
                                      !.progressLog = Append(@, ErrorLog(msg))]
               ELSE <<>>)

\* handleResizeClick, after `await resizeVideo/resizeImage`: outcome is the
\* payload returned ("original" or "output"), "null", or "throw".
Settle(st, j, outcome) ==
  IF outcome = "throw" THEN Failure(st, j, UnexpectedMessage)
  ELSE IF outcome = "null" THEN Failure(st, j, FailedMessage(page))
  ELSE Success([st EXCEPT !.nextUrl = @ + 1], j, outcome, st.nextUrl)

(***************************************************************************)
(* The invokers, as far as the orchestrator sees them.                     *)
(***************************************************************************)
\* JavaScript truthiness of a number | null parameter: !v
Falsy(v) == v = Empty \/ v[1] = 0

\* resizeVideo line 34 / resizeImage line 27: the payload is returned as is,
\* before anything is awaited.
ImmediateReturn(p, w, h, f) ==
  IF p = "video" THEN Falsy(w) /\ Falsy(h) /\ Falsy(f)
                 ELSE Falsy(w) /\ Falsy(h)

\* beforeWidth === width, with width null or a number
Same(before, v) == v # Empty /\ v[1] = before

\* resizeVideo lines 41-44
VideoNoOp(size, w, h, f) ==
  /\ Falsy(f)
  /\ \/ Same(size[1], w) /\ (Same(size[2], h) \/ Falsy(h))
     \/ Same(size[2], h) /\ (Same(size[1], w) \/ Falsy(w))

\* resizeImage line 49
ImageNoOp(size, w, h) ==
  \/ Falsy(w) /\ Falsy(h)
  \/ Same(size[1], w) /\ Same(size[2], h)

(***************************************************************************)
(* The geometry the invokers resolve.  A JavaScript number is kept as      *)
(* twice its value, so that the halves of resizeVideo are exact; a         *)
(* division by zero gives NaN or Infinity as in JavaScript.                *)
(***************************************************************************)
Num(n) == [kind |-> "num", twice |-> 2 * n]
NaN == [kind |-> "NaN", twice |-> 0]
Infinity == [kind |-> "Infinity", twice |-> 0]

\* (v || 0) of a number | null parameter
OrZero(v) == IF Falsy(v) THEN 0 ELSE v[1]

\* Math.floor(a * b / c) for integers a, b, c >= 0
FloorRatio(a, b, c) ==
  IF c # 0 THEN Num((a * b) \div c)
  ELSE IF a * b = 0 THEN NaN
  ELSE Infinity

\* if (x % 2 !== 0) x += 1, on the result of Math.floor or a requested value;
\* NaN % 2 and Infinity % 2 are NaN, and NaN + 1, Infinity + 1 are unchanged
IncrementIfOdd(x) ==
  IF x.kind = "num" /\ x.twice % 4 # 0 THEN [x EXCEPT !.twice = @ + 2] ELSE x

\* n / 2
Halve(n) == [kind |-> "num", twice |-> n]

\* x % 2 !== 0
NotEven(x) == x.kind # "num" \/ x.twice % 4 # 0

\* resizeVideo up to the options of the engine call (lines 34-52, 73-75):
\* ret is "original" when videoData is returned as is, "engine" otherwise,
\* and then scale = afterWidth : afterHeight is what the filter is given.
\* resolvedWidth and resolvedHeight are the values of lines 46-49, which
\* lines 51-52 overwrite.
VideoResolve(size, w, h, f) ==
  LET beforeWidth == size[1]
      beforeHeight == size[2]
      resolvedWidth ==
        IncrementIfOdd(IF ~Falsy(w) THEN Num(w[1])
                       ELSE FloorRatio(OrZero(h), beforeWidth, beforeHeight))
      resolvedHeight ==
        IncrementIfOdd(IF ~Falsy(h) THEN Num(h[1])
                       ELSE FloorRatio(OrZero(w), beforeHeight, beforeWidth))
      afterWidth == Halve(beforeWidth)
      afterHeight == Halve(beforeHeight)
  IN  [ret |-> IF ImmediateReturn("video", w, h, f) THEN "original"
               ELSE IF VideoNoOp(size, w, h, f) THEN "original"
               ELSE "engine",
       resolvedWidth |-> resolvedWidth,
       resolvedHeight |-> resolvedHeight,
       afterWidth |-> afterWidth,
       afterHeight |-> afterHeight,
       yuv444p |-> NotEven(afterWidth) \/ NotEven(afterHeight),
       fps |-> IF Falsy(f) THEN Empty ELSE f]

\* resizeImage up to the canvas (lines 27-59): ret is "original" when
\* imageData is resolved as is, "canvas" when the image is drawn at
\* afterWidth x afterHeight.
ImageResolve(size, w, h) ==
  LET beforeWidth == size[1]
      beforeHeight == size[2]
      afterWidth == IF ~Falsy(w) THEN Num(w[1])
                    ELSE FloorRatio(OrZero(h), beforeWidth, beforeHeight)
      afterHeight == IF ~Falsy(h) THEN Num(h[1])
                     ELSE FloorRatio(OrZero(w), beforeHeight, beforeWidth)
  IN  [ret |-> IF ImmediateReturn("image", w, h, Empty) THEN "original"
               ELSE IF ImageNoOp(size, w, h) THEN "original"
               ELSE "canvas",
       resolvedWidth |-> afterWidth,
       resolvedHeight |-> afterHeight,
       afterWidth |-> afterWidth,
       afterHeight |-> afterHeight,
       yuv444p |-> FALSE,
       fps |-> Empty]

\* Nothing resolved yet.
NoGeometry ==
  [ret |-> "none", resolvedWidth |-> NaN, resolvedHeight |-> NaN,
   afterWidth |-> NaN, afterHeight |-> NaN, yuv444p |-> FALSE, fps |-> Empty]

(***************************************************************************)
(* handleResizeClick: the validation and the loop over selectedFiles.      *)
(***************************************************************************)
\* A mutation of NotPositive: zero passes.
NotPositiveZeroPasses(v) == v # Empty /\ v[1] < 0

\* targetWidth !== null && targetWidth <= 0
NotPositive(v) == v # Empty /\ v[1] <= 0

\* The error of the first failing check, "ok" when the run may start.
Validate(p, files, w, h, f) ==
  IF Len(files) = 0 THEN "no-file"
  ELSE IF p = "video" /\ w = Empty /\ h = Empty /\ f = Empty THEN "no-param"
  ELSE IF p = "image" /\ w = Empty /\ h = Empty THEN "no-param"
  ELSE IF p = "image" /\ w # Empty /\ h # Empty THEN "both"
  ELSE IF p = "video" /\ (NotPositive(w) \/ NotPositive(h) \/ NotPositive(f))
    THEN "not-positive"
  ELSE IF p = "image" /\ (NotPositive(w) \/ NotPositive(h))
    THEN "not-positive"
  ELSE "ok"

IdleRun == [phase |-> "idle", i |-> 0, files |-> <<>>, initial |-> <<>>,
            tw |-> Empty, th |-> Empty, tf |-> Empty, logs |-> 0]

\* The for loop from the test of index j on, up to the next await: r is the
\* closure of the invocation (files = selectedFiles, initial = initialResults
\* and the target parameters, as captured at the click).
RECURSIVE Loop(_, _, _)
Loop(st, j, r) ==
  IF j > Len(r.files)
    THEN [st EXCEPT !.phase = "idle", !.i = 0, !.fin = TRUE]
  ELSE IF page = "image" /\ j \notin DOMAIN r.initial
    \* initialResults[i].status on undefined: a TypeError outside the try
    THEN [st EXCEPT !.phase = "crashed", !.i = 0]
  ELSE IF page = "image" /\ r.initial[j].status = "error"
    THEN Loop(st, j + 1, r)
  ELSE
    LET s1 == Processing(st, j)
        s2 == [s1 EXCEPT !.calls = @ + 1]
    IN  IF ImmediateReturn(page, r.tw, r.th, r.tf)
          THEN Loop(Settle(s2, j, "original"), j + 1, r)
        ELSE IF page = "video"
          THEN [s2 EXCEPT !.phase = "probe", !.i = j]
        ELSE [updateProgress(s2, j, Line("Loading image..."), 10)
                EXCEPT !.phase = "load", !.i = j]

Revocations == [once |-> revoked, again |-> revokedAgain]

\* The state of an unmounted component is gone.
Discarded ==
  /\ selectedFiles' = <<>>
  /\ width' = Empty /\ height' = Empty /\ fps' = Empty
  /\ results' = <<>>
  /\ isProcessing' = FALSE
  /\ error' = <<>>

\* The state a task starts from.
Segment(res) ==
  [res |-> res, live |-> mounted, fin |-> FALSE, nextUrl |-> nextUrl,
   calls |-> calls, listeners |-> listeners, phase |-> run.phase, i |-> run.i,
   leaked |-> leaked]

\* The end of a task of the run in closure r, with logs engine log events
\* seen in the current call: the commit of what the task set, and the effect
\* cleanups it triggers.  Once the component is unmounted its state is gone
\* (the state variables are left at their initial values) and the setters
\* called by the run do nothing.
Commit(st, r, logs, err) ==
  /\ nextUrl' = st.nextUrl
  /\ leaked' = st.leaked
  /\ calls' = st.calls
  /\ listeners' = st.listeners
  /\ run' = IF st.phase \in {"idle", "crashed"}
              THEN [IdleRun EXCEPT !.phase = st.phase]
              ELSE [r EXCEPT !.phase = st.phase, !.i = st.i, !.logs = logs]
  /\ IF ~mounted
       THEN UNCHANGED <<mounted, selectedFiles, width, height, fps, results,
                        isProcessing, error, revoked, revokedAgain>>
     ELSE IF st.live
       THEN LET rv == IF page = "video"
                        THEN VideoEffectCleanup(Revocations, results)
                        ELSE Revocations
            IN  /\ results' = st.res
                /\ isProcessing' = ~st.fin
                /\ error' = err
                /\ revoked' = rv.once
                /\ revokedAgain' = rv.again
                /\ UNCHANGED <<mounted, selectedFiles, width, height, fps>>
     ELSE LET rv == IF page = "video"
                      THEN VideoEffectCleanup(Revocations, results)
                      ELSE ImageUnmountCleanup(Revocations, results)
          IN  /\ mounted' = FALSE
              /\ revoked' = rv.once
              /\ revokedAgain' = rv.again
              /\ Discarded

(***************************************************************************)
(* The events of a page.                                                   *)
(***************************************************************************)
\* <input type="file" onChange>, disabled while isProcessing
HandleFileChange(files) ==
  LET sel == Select(page, files)
      rv == IF page = "video" THEN VideoEffectCleanup(Revocations, results)
                              ELSE Revocations
  IN  /\ mounted /\ ~isProcessing
      /\ selCount < MaxSelections
      /\ selCount' = selCount + 1
      /\ sel.newFiles \notin probes
      /\ selectedFiles' = sel.newFiles
      /\ results' = <<>>
      /\ error' = sel.fileErrors
      /\ probes' = IF page = "image" THEN probes \cup {sel.newFiles} ELSE probes
      /\ revoked' = rv.once
      /\ revokedAgain' = rv.again
      /\ selPc' = IF selPc = "picked" THEN "selected" ELSE selPc
      /\ UNCHANGED <<page, mounted, width, height, fps, isProcessing, run,
                     runCount, listeners, nextUrl, calls, picked,
                     invokerVars, toolVars, leaked>>

\* getImageSize: the object URL of the probe is revoked in onload only, so
\* the probe of a file that fires onerror leaves its URL unreleased.
getImageSizeLeaks(files) ==
  Cardinality({k \in DOMAIN files : ~files[k].decodable})

\* ImagePage: Promise.all(...).then(initialResults => setResults(initialResults))
ProbeDelivered(files) ==
  /\ files \in probes
  /\ probes' = probes \ {files}
  /\ leaked' = leaked + getImageSizeLeaks(files)
  /\ results' = IF mounted THEN ProbeResults(files) ELSE results
  /\ UNCHANGED <<page, mounted, selectedFiles, width, height, fps,
                 isProcessing, error, run, runCount, selCount, listeners, nextUrl,
                 revoked, revokedAgain, calls, picked, selPc, invokerVars, toolVars>>

\* A mutation of SetWidth: the height field is left as it is.
SetWidthKeepsHeight(v) ==
  /\ mounted /\ ~isProcessing
  /\ width' = v
  /\ height' = height
  /\ UNCHANGED <<page, mounted, selectedFiles, fps, results, isProcessing,
                 error, run, runCount, selCount, probes, listeners, nextUrl, revoked,
                 revokedAgain, calls, picked, selPc, invokerVars, toolVars, leaked>>

\* The width input's onChange, disabled while isProcessing
SetWidth(v) ==
  /\ mounted /\ ~isProcessing
  /\ width' = v
  /\ height' = IF page = "image" /\ v # Empty THEN Empty ELSE height
  /\ UNCHANGED <<page, mounted, selectedFiles, fps, results, isProcessing,
                 error, run, runCount, selCount, probes, listeners, nextUrl, revoked,
                 revokedAgain, calls, picked, selPc, invokerVars, toolVars, leaked>>

\* The height input's onChange
SetHeight(v) ==
  /\ mounted /\ ~isProcessing
  /\ height' = v
  /\ width' = IF page = "image" /\ v # Empty THEN Empty ELSE width
  /\ UNCHANGED <<page, mounted, selectedFiles, fps, results, isProcessing,
                 error, run, runCount, selCount, probes, listeners, nextUrl, revoked,
                 revokedAgain, calls, picked, selPc, invokerVars, toolVars, leaked>>

\* VideoPage: the fps input's onChange
SetFps(v) ==
  /\ mounted /\ ~isProcessing /\ page = "video"
  /\ fps' = v
  /\ UNCHANGED <<page, mounted, selectedFiles, width, height, results,
                 isProcessing, error, run, runCount, selCount, probes, listeners,
                 nextUrl, revoked, revokedAgain, calls, picked, selPc, invokerVars, toolVars, leaked>>

\* handleResizeClick when a check fails: setError(...); return
ResizeBlocked ==
  LET v == Validate(page, selectedFiles, width, height, fps)
  IN  /\ mounted /\ ~isProcessing
      /\ v # "ok"
      /\ error' = <<ErrorLine(v, <<>>)>>
      /\ UNCHANGED <<page, mounted, selectedFiles, width, height, fps,
                     results, isProcessing, run, runCount, selCount, probes, listeners,
                     nextUrl, revoked, revokedAgain, calls, picked, selPc, invokerVars, toolVars, leaked>>

\* handleResizeClick when the checks pass, up to its first await
ResizeStart ==
  LET v == Validate(page, selectedFiles, width, height, fps)
      initialResults == IF page = "video"
                          THEN VideoInitialResults(selectedFiles)
                          ELSE ImageInitialResults(results)
      r == [IdleRun EXCEPT !.files = selectedFiles,
                           !.initial = IF page = "image" THEN initialResults
                                                         ELSE <<>>,
                           !.tw = width, !.th = height, !.tf = fps]
  IN  /\ mounted /\ ~isProcessing
      /\ v = "ok"
      /\ runCount < MaxRuns
      /\ runCount' = runCount + 1
      /\ Commit(Loop(Segment(initialResults), 1, r), r, 0, <<>>)
      /\ UNCHANGED <<page, selCount, probes, picked, selPc, invokerVars, toolVars>>

HandleResizeClick == ResizeBlocked \/ ResizeStart

\* resizeVideo: getVideoSize resolved (the 'progress' event of the element)
VideoSizeProbed ==
  LET j == run.i
      s0 == [Segment(results) EXCEPT !.leaked = @ + 1]
      s1 == updateProgress(s0, j,
                           <<"size", run.files[j].size[1], run.files[j].size[2]>>,
                           NoPercent)
  IN  /\ run.phase = "probe"
      /\ IF VideoNoOp(run.files[j].size, run.tw, run.th, run.tf)
           THEN Commit(Loop(Settle(s1, j, "original"), j + 1, run), run, 0, error)
           ELSE Commit([s1 EXCEPT !.listeners = Append(@, j),
                                  !.phase = "engine"], run, 0, error)
      /\ UNCHANGED <<page, runCount, selCount, probes, picked, selPc, invokerVars, toolVars>>

\* getVideoSize on a payload that cannot be decoded, when the <video> fires
\* 'error' and no 'progress': nothing listens to 'error' and the Promise has
\* no reject, so `await getVideoSize` never continues.  (When 'progress'
\* fires first, VideoSizeProbed continues with videoWidth = videoHeight = 0.)
VideoProbeStalled ==
  /\ run.phase = "probe"
  /\ ~run.files[run.i].decodable
  /\ run' = [run EXCEPT !.phase = "stalled"]
  /\ UNCHANGED <<page, mounted, selectedFiles, width, height, fps, results,
                 isProcessing, error, runCount, selCount, probes, listeners,
                 nextUrl, revoked, revokedAgain, calls, picked, selPc,
                 invokerVars, toolVars, leaked>>

RECURSIVE Notify(_, _, _)
\* One 'log' event of the engine: every registered listener is called.
Notify(st, ls, message) ==
  IF ls = <<>> THEN st
  ELSE Notify(updateProgress(st, Head(ls), message, NoPercent), Tail(ls), message)

EngineLog ==
  /\ run.phase = "engine"
  /\ run.logs < MaxLogEvents
  /\ Commit(Notify(Segment(results), listeners, Line("ffmpeg log")),
            run, run.logs + 1, error)
  /\ UNCHANGED <<page, runCount, selCount, probes, picked, selPc, invokerVars, toolVars>>

\* resizeVideo returned: the output Blob, or null from its catch
EngineDone(outcome) ==
  /\ run.phase = "engine"
  /\ Commit(Loop(Settle(Segment(results), run.i, outcome), run.i + 1, run),
            run, 0, error)
  /\ UNCHANGED <<page, runCount, selCount, probes, picked, selPc, invokerVars, toolVars>>

\* resizeImage: the Image fired onload ("ok", or "noctx" when getContext
\* then returns null) or onerror
ImageLoaded(outcome) ==
  LET j == run.i
      file == run.files[j]
      st == Segment(results)
      \* the object URL of img.src is revoked at line 51 and in the toBlob
      \* callback, not on the paths that throw
      unreleased(t) == [t EXCEPT !.leaked = @ + 1]
      s1 == updateProgress(st, j, Line("Original size"), 30)
      s2 == updateProgress(s1, j, Line("Target size"), 50)
      s3 == updateProgress(s2, j, Line("Drawing to canvas..."), 70)
  IN  /\ run.phase = "load"
      /\ (outcome = "onerror") = ~file.decodable
      /\ IF outcome = "onerror"
           THEN Commit(Loop(Settle(unreleased(st), j, "throw"), j + 1, run),
                       run, 0, error)
         ELSE IF ImageNoOp(file.size, run.tw, run.th)
           THEN Commit(Loop(Settle(s1, j, "original"), j + 1, run), run, 0, error)
         ELSE IF outcome = "noctx"
           THEN Commit(Loop(Settle(unreleased(s2), j, "throw"), j + 1, run),
                       run, 0, error)
         ELSE Commit([s3 EXCEPT !.phase = "toBlob"], run, 0, error)
      /\ UNCHANGED <<page, runCount, selCount, probes, picked, selPc, invokerVars, toolVars>>

\* resizeImage: the canvas.toBlob callback, with a blob or with null
ImageSerialized(ok) ==
  LET j == run.i
      st == Segment(results)
  IN  /\ run.phase = "toBlob"
      /\ IF ok
           THEN Commit(Loop(Settle(updateProgress(st, j,
                                     Line("Conversion complete."), 100),
                                   j, "output"), j + 1, run), run, 0, error)
           ELSE Commit(Loop(Settle(st, j, "throw"), j + 1, run), run, 0, error)
      /\ UNCHANGED <<page, runCount, selCount, probes, picked, selPc, invokerVars, toolVars>>

\* ImagePage: the Clear All button, disabled while isProcessing
HandleClear ==
  LET rv == RevokeEach(Revocations, OutputUrls(results))
  IN  /\ mounted /\ ~isProcessing /\ page = "image"
      /\ revoked' = rv.once
      /\ revokedAgain' = rv.again
      /\ selectedFiles' = <<>>
      /\ width' = Empty
      /\ height' = Empty
      /\ results' = <<>>
      /\ isProcessing' = FALSE
      /\ error' = <<>>
      /\ UNCHANGED <<page, mounted, fps, run, runCount, selCount, probes, listeners,
                     nextUrl, calls, picked, selPc, invokerVars, toolVars, leaked>>

\* The component is unmounted (the user leaves the page): effect cleanups run
Unmount ==
  LET rv == IF page = "video" THEN VideoEffectCleanup(Revocations, results)
                              ELSE ImageUnmountCleanup(Revocations, results)
  IN  /\ mounted
      /\ mounted' = FALSE
      /\ revoked' = rv.once
      /\ revokedAgain' = rv.again
      /\ Discarded
      /\ UNCHANGED <<page, run, runCount, selCount, probes, listeners,
                     nextUrl, calls, picked, selPc, invokerVars, toolVars, leaked>>

(***************************************************************************)
(* resizeVideo on the shared engine: the module singleton `ffmpeg` of      *)
(* videoutils.ts, its working files, and the handleResizeClick invocation  *)
(* of each VideoPage component (the one on screen, and the ones that were  *)
(* left while their run was in progress: their loop goes on).              *)
(***************************************************************************)
MaxMounts == 2      \* VideoPage components created in one behaviour

defaultOutputExtension == "mp4"

\* 'tmp.' + ext and 'tmp_output.mp4'
inputFilename(ext) == <<"tmp", ext>>
outputFilename == <<"tmp_output", "mp4">>

\* new FFmpeg(): not loaded, an empty working namespace.  loads counts the
\* invocations of ffmpeg.load, lateLoads those made when ffmpeg.loaded was
\* already true.
NewFFmpeg == [loaded |-> FALSE, fs |-> {}, loads |-> 0, lateLoads |-> 0]

\* An entry of the working namespace: its name, and what it holds: the data
\* of item `item` of the run of component `by`, as input, complete output
\* or partial output.
Entry(name, by, item, kind) ==
  [name |-> name, by |-> by, item |-> item, kind |-> kind]

Names(fs) == {e.name : e \in fs}

writeFile(fs, entry) == {e \in fs : e.name # entry.name} \cup {entry}

readFile(fs, name) == CHOOSE e \in fs : e.name = name

deleteFile(fs, name) == {e \in fs : e.name # name}

\* Nothing read back.
NoData == Entry(<<>>, 0, 0, "none")

\* No handleResizeClick of the component is running.  vf is the geometry of
\* the resizeVideo call in flight, ret the status its exec returned, data
\* what its readFile returned, wrote the names it wrote.
IdleCaller ==
  [phase |-> "idle", i |-> 0, files |-> <<>>, initial |-> <<>>,
   tw |-> Empty, th |-> Empty, tf |-> Empty, logs |-> 0,
   vf |-> NoGeometry, ret |-> 0, data |-> NoData, wrote |-> {}]

\* The awaits of resizeVideo on the engine, from the check of ffmpeg.loaded.
EnginePhases == {"urls", "load", "write", "exec", "read", "delete"}

\* The component of caller g is the one on screen.
OnScreen(g) == g = generation /\ mounted

\* The state a task of caller g starts from.
CallerSegment(g) ==
  [res |-> IF OnScreen(g) THEN results ELSE <<>>,
   live |-> OnScreen(g), fin |-> FALSE, nextUrl |-> nextUrl,
   calls |-> calls, listeners |-> listeners,
   phase |-> callers[g].phase, i |-> callers[g].i, leaked |-> leaked]

\* The end of a task of caller g, whose closure and call state are c.
CallerCommit(g, st, c) ==
  /\ nextUrl' = st.nextUrl
  /\ leaked' = st.leaked
  /\ calls' = st.calls
  /\ listeners' = st.listeners
  /\ callers' = [callers EXCEPT ![g] =
                   IF st.phase \in EnginePhases
                     THEN [c EXCEPT !.phase = st.phase, !.i = st.i]
                   ELSE IF st.phase = "probe"
                     THEN [c EXCEPT !.phase = st.phase, !.i = st.i,
                                    !.vf = NoGeometry, !.ret = 0,
                                    !.data = NoData, !.wrote = {}]
                   ELSE IdleCaller]
  /\ IF OnScreen(g)
       THEN LET rv == VideoEffectCleanup(Revocations, results)
            IN  /\ results' = st.res
                /\ isProcessing' = ~st.fin
                /\ revoked' = rv.once
                /\ revokedAgain' = rv.again
       ELSE UNCHANGED <<results, isProcessing, revoked, revokedAgain>>
  /\ UNCHANGED <<page, mounted, selectedFiles, width, height, fps, run,
                 selCount, probes, picked, selPc, resolved, generation,
                 toolVars>>

\* resizeVideo returned `outcome` for item callers[g].i: the rest of the
\* iteration of handleResizeClick, and the loop up to its next await.
Returned(g, st, outcome) ==
  CallerCommit(g, Loop(Settle(st, callers[g].i, outcome),
                       callers[g].i + 1, callers[g]),
               callers[g])

\* VideoPage handleResizeClick when the checks pass, up to its first await
ResizeClicked ==
  LET g == generation
      initialResults == VideoInitialResults(selectedFiles)
      c == [IdleCaller EXCEPT !.files = selectedFiles,
                              !.tw = width, !.th = height, !.tf = fps]
      st == [CallerSegment(g) EXCEPT !.res = initialResults]
  IN  /\ mounted /\ ~isProcessing /\ page = "video"
      /\ Validate(page, selectedFiles, width, height, fps) = "ok"
      /\ runCount < MaxRuns
      /\ runCount' = runCount + 1
      /\ error' = <<>>
      /\ CallerCommit(g, Loop(st, 1, c), c)
      /\ UNCHANGED ffmpeg

\* resizeVideo lines 36-61: getVideoSize resolved; the original is returned,
\* or the listener is registered and ffmpeg.loaded is tested
SizeProbed(g) ==
  LET c == callers[g]
      j == c.i
      size == c.files[j].size
      vf == VideoResolve(size, c.tw, c.th, c.tf)
      s0 == [CallerSegment(g) EXCEPT !.leaked = @ + 1]
      s1 == updateProgress(s0, j, <<"size", size[1], size[2]>>, NoPercent)
  IN  /\ c.phase = "probe"
      /\ IF vf.ret = "original"
           THEN Returned(g, s1, "original")
           ELSE CallerCommit(g,
                  [s1 EXCEPT !.listeners = Append(@, j),
                             !.phase = IF ffmpeg.loaded THEN "write" ELSE "urls"],
                  [c EXCEPT !.vf = vf])
      /\ UNCHANGED <<ffmpeg, runCount, error>>

\* resizeVideo lines 63-67: both toBlobURL resolved and ffmpeg.load is
\* invoked, or one of them rejected
CoreFetched(g, ok) ==
  /\ callers[g].phase = "urls"
  /\ IF ok
       THEN /\ ffmpeg' = [ffmpeg EXCEPT
                           !.loads = @ + 1,
                           !.lateLoads = IF ffmpeg.loaded THEN @ + 1 ELSE @]
            /\ CallerCommit(g, [CallerSegment(g) EXCEPT !.phase = "load"],
                            callers[g])
       ELSE /\ Returned(g, CallerSegment(g), "null")
            /\ UNCHANGED ffmpeg
  /\ UNCHANGED <<runCount, error>>

\* resizeVideo line 63: ffmpeg.load resolved (ffmpeg.loaded is true from
\* then on) or rejected
Loaded(g, ok) ==
  /\ callers[g].phase = "load"
  /\ IF ok
       THEN /\ ffmpeg' = [ffmpeg EXCEPT !.loaded = TRUE]
            /\ CallerCommit(g, [CallerSegment(g) EXCEPT !.phase = "write"],
                            callers[g])
       ELSE /\ Returned(g, CallerSegment(g), "null")
            /\ UNCHANGED ffmpeg
  /\ UNCHANGED <<runCount, error>>

\* resizeVideo line 78: fetchFile and ffmpeg.writeFile resolved, or rejected
InputWritten(g, ok) ==
  LET c == callers[g]
      name == inputFilename(fileExt(c.files[c.i]))
  IN  /\ c.phase = "write"
      /\ IF ok
           THEN /\ ffmpeg' = [ffmpeg EXCEPT
                               !.fs = writeFile(@, Entry(name, g, c.i, "input"))]
                /\ CallerCommit(g, [CallerSegment(g) EXCEPT !.phase = "exec"],
                                [c EXCEPT !.wrote = @ \cup {name}])
           ELSE /\ Returned(g, CallerSegment(g), "null")
                /\ UNCHANGED ffmpeg
      /\ UNCHANGED <<runCount, error>>

\* resizeVideo line 80: ffmpeg.exec resolved with status 0 and the output
\* written from what the input file holds ("ok"), with a non-zero status and
\* the output left partly written ("partial") or not written ("failed"), or
\* rejected ("throw").  The status is logged and not tested.
Executed(g, outcome) ==
  LET c == callers[g]
      name == inputFilename(fileExt(c.files[c.i]))
      input == readFile(ffmpeg.fs, name)
      out(kind) == Entry(outputFilename, input.by, input.item, kind)
  IN  /\ c.phase = "exec"
      /\ outcome \in {"ok", "partial"} => name \in Names(ffmpeg.fs)
      /\ IF outcome = "throw"
           THEN /\ Returned(g, CallerSegment(g), "null")
                /\ UNCHANGED ffmpeg
           ELSE /\ ffmpeg' = [ffmpeg EXCEPT !.fs =
                                IF outcome = "ok" THEN writeFile(@, out("output"))
                                ELSE IF outcome = "partial"
                                  THEN writeFile(@, out("partial"))
                                ELSE @]
                /\ CallerCommit(g, [CallerSegment(g) EXCEPT !.phase = "read"],
                     [c EXCEPT !.ret = IF outcome = "ok" THEN 0 ELSE 1,
                               !.wrote = IF outcome = "failed" THEN @
                                         ELSE @ \cup {outputFilename}])
      /\ UNCHANGED <<runCount, error>>

\* resizeVideo line 88: ffmpeg.readFile resolved with what the output file
\* holds, or rejected because there is no such file
OutputRead(g) ==
  LET c == callers[g]
  IN  /\ c.phase = "read"
      /\ IF outputFilename \in Names(ffmpeg.fs)
           THEN CallerCommit(g, [CallerSegment(g) EXCEPT !.phase = "delete"],
                             [c EXCEPT !.data = readFile(ffmpeg.fs, outputFilename)])
           ELSE Returned(g, CallerSegment(g), "null")
      /\ UNCHANGED <<ffmpeg, runCount, error>>

\* What the Blob of line 91 holds: the complete output of this item
\* ("output"), a partial output, or the output of another call ("foreign").
Payload(g, c) ==
  IF c.data.kind = "partial" THEN "partial"
  ELSE IF c.data.by # g \/ c.data.item # c.i THEN "foreign"
  ELSE "output"

\* resizeVideo lines 90-91: ffmpeg.deleteFile resolved and the Blob is
\* returned, or rejected because there is no such file
OutputDeleted(g) ==
  LET c == callers[g]
  IN  /\ c.phase = "delete"
      /\ IF outputFilename \in Names(ffmpeg.fs)
           THEN /\ ffmpeg' = [ffmpeg EXCEPT !.fs = deleteFile(@, outputFilename)]
                /\ Returned(g, CallerSegment(g), Payload(g, c))
           ELSE /\ Returned(g, CallerSegment(g), "null")
                /\ UNCHANGED ffmpeg
      /\ UNCHANGED <<runCount, error>>

\* The video page is opened again after it was left: a fresh component
Open ==
  /\ ~mounted /\ page = "video"
  /\ generation < MaxMounts
  /\ mounted' = TRUE
  /\ generation' = generation + 1
  /\ callers' = Append(callers, IdleCaller)
  /\ UNCHANGED <<page, selectedFiles, width, height, fps, results,
                 isProcessing, error, run, runCount, selCount, probes,
                 listeners, nextUrl, revoked, revokedAgain, calls, picked,
                 selPc, resolved, ffmpeg, leaked,
                 toolVars>>

(***************************************************************************)
(* The Base64 decode page (Base64ImagePage).  A character of the input is  *)
(* a number: 0..63 are the characters of the standard alphabet in the      *)
(* order of their values ('A' is 0, '+' is 62, '/' is 63), the others are  *)
(* the characters handleConvert and atob tell apart.                       *)
(***************************************************************************)
ChPlus == 62          \* '+'
ChSlash == 63         \* '/'
ChPad == 64           \* '='
ChMinus == 65         \* '-'
ChUnderscore == 66    \* '_'
ChSpace == 67         \* a character \s matches
ChStar == 68          \* any other character
Alphabet == 0 .. 63

\* The text in front of the body: none, or `data:<mime><params>;base64,`
\* where params is a list of `;name=value` parameters.
NoPrefix == [uri |-> FALSE, mime |-> "", params |-> 0]
DataUri(mime, params) == [uri |-> TRUE, mime |-> mime, params |-> params]

InputString(prefix, body) == [prefix |-> prefix, body |-> body]
EmptyInput == InputString(NoPrefix, <<>>)

\* !inputString.trim()
BlankInput(input) ==
  /\ ~input.prefix.uri
  /\ \A k \in DOMAIN input.body : input.body[k] = ChSpace

\* The MIME type the two data-URI patterns take from the text: the pattern
\* /^data:([^;]+);base64,(.*)$/s matches a prefix with a non-empty type and
\* no parameter; any other prefix is split at 'base64,' and /data:(.*?);/
\* gives the text up to its first ';' (which may be empty).
dataUriMime(prefix) == IF prefix.uri THEN prefix.mime ELSE ""

IsBase64Char(c) == c # ChSpace

\* base64.replace(/\s/g, '')
removeWhitespace(text) == SelectSeq(text, IsBase64Char)

\* A mutation of toStandardAlphabet: '_' is left as it is.
toStandardAlphabetMinusOnly(text) ==
  [k \in DOMAIN text |-> IF text[k] = ChMinus THEN ChPlus ELSE text[k]]

\* base64.replace(/-/g, '+').replace(/_/g, '/')
toStandardAlphabet(text) ==
  [k \in DOMAIN text |-> IF text[k] = ChMinus THEN ChPlus
                         ELSE IF text[k] = ChUnderscore THEN ChSlash
                         ELSE text[k]]

\* A mutation of padding: one '=' more.
paddingOneMore(pad) == [k \in 1 .. (5 - pad) |-> ChPad]

\* new Array(5 - pad).join('='): 4 - pad characters
padding(pad) == [k \in 1 .. (4 - pad) |-> ChPad]

\* if (pad) { ...; base64 += new Array(5 - pad).join('=') }
padTo4(text) ==
  IF Len(text) % 4 # 0 THEN text \o padding(Len(text) % 4) ELSE text

RECURSIVE decodeSextets(_)
\* The bytes of a list of sextets: 4 sextets give 3 bytes, a rest of 2
\* gives 1 byte and a rest of 3 gives 2 bytes (the bits left over dropped).
decodeSextets(t) ==
  IF Len(t) = 0 THEN <<>>
  ELSE IF Len(t) = 2 THEN <<t[1] * 4 + t[2] \div 16>>
  ELSE IF Len(t) = 3
    THEN <<t[1] * 4 + t[2] \div 16, (t[2] % 16) * 16 + t[3] \div 4>>
  ELSE <<t[1] * 4 + t[2] \div 16, (t[2] % 16) * 16 + t[3] \div 4,
         (t[3] % 4) * 64 + t[4]>> \o decodeSextets(SubSeq(t, 5, Len(t)))

\* window.atob (forgiving-base64 decode): whitespace is removed; of a text
\* whose length is a multiple of 4 one or two '=' at the end are removed;
\* a length of 1 modulo 4, or a character outside the alphabet, throws.
atob(text) ==
  LET s == removeWhitespace(text)
      n == Len(s)
      t == IF n > 0 /\ n % 4 = 0 /\ s[n] = ChPad
             THEN IF s[n - 1] = ChPad THEN SubSeq(s, 1, n - 2)
                                      ELSE SubSeq(s, 1, n - 1)
             ELSE s
  IN  IF Len(t) % 4 = 1 \/ \E k \in DOMAIN t : t[k] \notin Alphabet
        THEN [ok |-> FALSE, bytes |-> <<>>]
        ELSE [ok |-> TRUE, bytes |-> decodeSextets(t)]

\* headerHex.startsWith(hex of sig): headerHex holds the first 12 bytes
startsWith(bytes, sig) ==
  Len(bytes) >= Len(sig) /\ SubSeq(bytes, 1, Len(sig)) = sig

JpegSignature == <<255, 216, 255>>
PngSignature == <<137, 80, 78, 71>>
GifSignature == <<71, 73, 70, 56>>
RiffSignature == <<82, 73, 70, 70>>
BmpSignature == <<66, 77>>
Jp2Signature == <<0, 0, 0, 12, 106, 80, 32, 32>>

\* if (!mimeType) { if (headerHex.startsWith('FFD8FF')) ... }
sniff(bytes) ==
  IF startsWith(bytes, JpegSignature) THEN "image/jpeg"
  ELSE IF startsWith(bytes, PngSignature) THEN "image/png"
  ELSE IF startsWith(bytes, GifSignature) THEN "image/gif"
  ELSE IF startsWith(bytes, RiffSignature) THEN "image/webp"
  ELSE IF startsWith(bytes, BmpSignature) THEN "image/bmp"
  ELSE IF startsWith(bytes, Jp2Signature) THEN "image/jp2"
  ELSE "application/octet-stream"

Thrown(message) ==
  [path |-> "throw", message |-> message, bytes |-> <<>>, mimeType |-> ""]

\* handleConvert from `let base64 = inputString.trim()` to the branch on the
\* JP2 handling: what it throws, or the bytes, the MIME type and the branch.
Decode(input, magickReady) ==
  LET mimeType == dataUriMime(input.prefix)
      base64 == toStandardAlphabet(removeWhitespace(input.body))
      binStr == atob(padTo4(base64))
      arr == binStr.bytes
      sniffed == IF mimeType = "" THEN sniff(arr) ELSE mimeType
  IN  IF Len(base64) % 4 = 1 THEN Thrown("Invalid Base64 length")
      ELSE IF ~binStr.ok THEN Thrown("Invalid Base64 characters.")
      ELSE IF sniffed = "image/jp2" \/ startsWith(arr, Jp2Signature)
        THEN IF ~magickReady
               THEN Thrown("ImageMagick is not initialized. Cannot process JP2.")
               ELSE [path |-> "jp2", message |-> "", bytes |-> arr,
                     mimeType |-> "image/jp2"]
      ELSE [path |-> "standard", message |-> "", bytes |-> arr,
            mimeType |-> sniffed]

(***************************************************************************)
(* The state and the events of the two tool pages: Base64ImagePage and     *)
(* ImageConvertPage.  The pages are components of their own; `page` tells  *)
(* which one a behaviour is about.                                         *)
(***************************************************************************)
MaxConversions == 2   \* handleConvert calls in one behaviour of a tool page

NoResult == <<>>      \* result null
NoFile == <<>>        \* selectedFile null

\* setResult({displayUrl, downloadUrl, originalBlob, width, height, format,
\* size}); measured tells that width and height were read from the image.
ImageResult(displayUrl, downloadUrl, bytes, format, measured) ==
  <<[displayUrl |-> displayUrl, downloadUrl |-> downloadUrl,
     originalBlob |-> bytes, format |-> format, size |-> Len(bytes),
     measured |-> measured]>>

NoJob == [kind |-> "none", url |-> NoUrl, bytes |-> <<>>, format |-> "",
          file |-> NoFile]

\* The await a handleConvert invocation is at: getImageSize(originalBlob) on
\* the Base64 page ("size"), selectedFile.arrayBuffer() on the conversion
\* page ("buffer"), with the locals of the invocation.
Awaiting(kind, url, bytes, format, file) ==
  [kind |-> kind, url |-> url, bytes |-> bytes, format |-> format,
   file |-> file]

NoSample == [bytes |-> <<>>, prefix |-> NoPrefix, urlSafe |-> FALSE,
             unpadded |-> FALSE, spaced |-> FALSE, damage |-> "unknown"]

\* The state of the tool pages in a behaviour of another page.
ToolIdle ==
  /\ inputString = EmptyInput
  /\ result = NoResult
  /\ loading = FALSE
  /\ isMagickInitialized = FALSE
  /\ magick = "none"
  /\ selectedFile = NoFile
  /\ targetFormat = "png"
  /\ outputUrl = NoUrl
  /\ job = NoJob
  /\ sample = NoSample

\* The state of the batch pages taken alone.
batchVars == <<selectedFiles, width, height, fps, results, run, selCount,
               probes, listeners, calls, picked, selPc>>

\* The handles a result holds: displayUrl, and downloadUrl when it differs.
ResultUrls(res) ==
  IF res = NoResult THEN <<>>
  ELSE IF res[1].displayUrl # res[1].downloadUrl
    THEN <<res[1].displayUrl, res[1].downloadUrl>>
  ELSE <<res[1].displayUrl>>

\* if (outputUrl) URL.revokeObjectURL(outputUrl)
RevokeOutput(rv, url) == IF url # NoUrl THEN revokeObjectURL(rv, url) ELSE rv

\* The cleanup of the mount effect: its deps are [], so `result` and
\* `outputUrl` in it are those of the first render, null.
ToolEffectCleanup(rv) ==
  RevokeOutput(RevokeEach(rv, ResultUrls(NoResult)), NoUrl)

\* The state of an unmounted tool page is gone.
ToolDiscarded ==
  /\ inputString' = EmptyInput
  /\ result' = NoResult
  /\ loading' = FALSE
  /\ isMagickInitialized' = FALSE
  /\ selectedFile' = NoFile
  /\ targetFormat' = "png"
  /\ outputUrl' = NoUrl
  /\ isProcessing' = FALSE
  /\ error' = <<>>

\* initMagick() settled: initializeImageMagick resolved or rejected
MagickInitialized(ok) ==
  /\ magick = "pending"
  /\ magick' = "settled"
  /\ isMagickInitialized' = IF mounted /\ ok THEN TRUE ELSE isMagickInitialized
  /\ error' = IF mounted /\ ~ok /\ page = "imageconvert"
                THEN <<ErrorLine("Failed to initialize ImageMagick library.", <<>>)>>
                ELSE error
  /\ UNCHANGED <<page, mounted, isProcessing, runCount, nextUrl, revoked,
                 revokedAgain, leaked, batchVars, invokerVars, inputString,
                 result, loading, selectedFile, targetFormat, outputUrl, job,
                 sample>>

\* Base64ImagePage: the textarea's onChange
SetInputString(text) ==
  /\ page = "base64image" /\ mounted
  /\ inputString' = text
  /\ sample' = NoSample
  /\ UNCHANGED <<page, mounted, isProcessing, error, runCount, nextUrl,
                 revoked, revokedAgain, leaked, batchVars, invokerVars,
                 result, loading, isMagickInitialized, magick, selectedFile,
                 targetFormat, outputUrl, job>>

\* Base64ImagePage handleConvert (the Decode button, disabled while loading
\* or when inputString is ''), up to its first await that yields;
\* magickOk tells whether ImageMagick.read, if it is called, returns.
Base64HandleConvert(magickOk) ==
  LET d == Decode(inputString, isMagickInitialized)
  IN  /\ page = "base64image" /\ mounted
      /\ ~loading /\ inputString # EmptyInput
      /\ runCount < MaxConversions
      /\ runCount' = runCount + 1
      /\ IF BlankInput(inputString)
           THEN /\ error' = <<ErrorLine("Please enter a Base64 string.", <<>>)>>
                /\ UNCHANGED <<result, loading, nextUrl, job>>
         ELSE IF d.path = "throw"
           THEN /\ error' = <<ErrorLine(d.message, <<>>)>>
                /\ result' = NoResult
                /\ loading' = FALSE
                /\ UNCHANGED <<nextUrl, job>>
         ELSE IF d.path = "jp2" /\ ~magickOk
           THEN /\ error' = <<ErrorLine("Failed to decode Base64 string.", <<>>)>>
                /\ result' = NoResult
                /\ loading' = FALSE
                /\ UNCHANGED <<nextUrl, job>>
         ELSE IF d.path = "jp2"
           THEN /\ error' = <<>>
                /\ result' = ImageResult(nextUrl, nextUrl + 1, d.bytes,
                                         d.mimeType, TRUE)
                /\ nextUrl' = nextUrl + 2
                /\ loading' = FALSE
                /\ UNCHANGED job
         ELSE /\ error' = <<>>
              /\ result' = NoResult
              /\ loading' = TRUE
              /\ nextUrl' = nextUrl + 1
              /\ job' = Awaiting("size", nextUrl, d.bytes, d.mimeType, NoFile)
      /\ UNCHANGED <<page, mounted, isProcessing, revoked, revokedAgain,
                     leaked, batchVars, invokerVars, inputString,
                     isMagickInitialized, magick, selectedFile, targetFormat,
                     outputUrl, sample>>

\* Base64ImagePage handleConvert after `await getImageSize(originalBlob)`:
\* the image fired onload (ok) or onerror, which is caught and warned about
ImageSizeProbed(ok) ==
  /\ job.kind = "size"
  /\ job' = NoJob
  /\ leaked' = leaked + getImageSizeLeaks(<<[decodable |-> ok]>>)
  /\ IF mounted
       THEN /\ result' = ImageResult(job.url, job.url, job.bytes, job.format, ok)
            /\ loading' = FALSE
       ELSE UNCHANGED <<result, loading>>
  /\ UNCHANGED <<page, mounted, isProcessing, error, runCount, nextUrl,
                 revoked, revokedAgain, batchVars, invokerVars, inputString,
                 isMagickInitialized, magick, selectedFile, targetFormat,
                 outputUrl, sample>>

\* Base64ImagePage handleClear (the Clear button, disabled while loading)
Base64HandleClear ==
  LET rv == RevokeEach(Revocations, ResultUrls(result))
  IN  /\ page = "base64image" /\ mounted /\ ~loading
      /\ inputString' = EmptyInput
      /\ revoked' = rv.once
      /\ revokedAgain' = rv.again
      /\ result' = NoResult
      /\ error' = <<>>
      /\ sample' = NoSample
      /\ UNCHANGED <<page, mounted, isProcessing, runCount, nextUrl, leaked,
                     batchVars, invokerVars, loading, isMagickInitialized,
                     magick, selectedFile, targetFormat, outputUrl, job>>

\* ImageConvertPage: const targetFormats = [...]
targetFormats == <<"jpg", "png", "gif", "avif", "webp", "bmp", "jp2">>

\* ImageConvertPage handleFileChange (the file input, disabled while
\* isProcessing): files[0] of a FileList that is not empty
ConvertHandleFileChange(files) ==
  LET rv == RevokeOutput(Revocations, outputUrl)
  IN  /\ page = "imageconvert" /\ mounted /\ ~isProcessing
      /\ Len(files) > 0
      /\ selectedFile' = <<files[1]>>
      /\ error' = <<>>
      /\ revoked' = rv.once
      /\ revokedAgain' = rv.again
      /\ outputUrl' = NoUrl
      /\ UNCHANGED <<page, mounted, isProcessing, runCount, nextUrl, leaked,
                     batchVars, invokerVars, inputString, result, loading,
                     isMagickInitialized, magick, targetFormat, job, sample>>

\* ImageConvertPage: the format Select's onValueChange, disabled while
\* isProcessing
SetTargetFormat(format) ==
  /\ page = "imageconvert" /\ mounted /\ ~isProcessing
  /\ targetFormat' = format
  /\ UNCHANGED <<page, mounted, isProcessing, error, runCount, nextUrl,
                 revoked, revokedAgain, leaked, batchVars, invokerVars,
                 inputString, result, loading, isMagickInitialized, magick,
                 selectedFile, outputUrl, job, sample>>

\* ImageConvertPage handleConvert (the Convert button, disabled without a
\* file, while isProcessing and before ImageMagick is initialized), up to
\* `await selectedFile.arrayBuffer()`
ConvertHandleConvert ==
  /\ page = "imageconvert" /\ mounted
  /\ selectedFile # NoFile /\ ~isProcessing /\ isMagickInitialized
  /\ runCount < MaxConversions
  /\ runCount' = runCount + 1
  /\ isProcessing' = TRUE
  /\ error' = <<>>
  /\ job' = Awaiting("buffer", NoUrl, <<>>, targetFormat, selectedFile)
  /\ UNCHANGED <<page, mounted, nextUrl, revoked, revokedAgain, leaked,
                 batchVars, invokerVars, inputString, result, loading,
                 isMagickInitialized, magick, selectedFile, targetFormat,
                 outputUrl, sample>>

\* ImageConvertPage handleConvert after the await: ImageMagick.read and
\* image.write call back with the data ("written"), or one of them throws
BufferRead(outcome) ==
  /\ job.kind = "buffer"
  /\ (outcome = "written") => job.file[1].decodable
  /\ job' = NoJob
  /\ nextUrl' = IF outcome = "written" THEN nextUrl + 1 ELSE nextUrl
  /\ IF mounted
       THEN /\ outputUrl' = IF outcome = "written" THEN nextUrl ELSE outputUrl
            /\ error' = IF outcome = "written" THEN error
                        ELSE <<ErrorLine("Conversion failed", <<>>)>>
            /\ isProcessing' = FALSE
       ELSE UNCHANGED <<outputUrl, error, isProcessing>>
  /\ UNCHANGED <<page, mounted, runCount, revoked, revokedAgain, leaked,
                 batchVars, invokerVars, inputString, result, loading,
                 isMagickInitialized, magick, selectedFile, targetFormat,
                 sample>>

\* ImageConvertPage handleClear (the Clear button, disabled while
\* isProcessing)
ConvertHandleClear ==
  LET rv == RevokeOutput(Revocations, outputUrl)
  IN  /\ page = "imageconvert" /\ mounted /\ ~isProcessing
      /\ selectedFile' = NoFile
      /\ revoked' = rv.once
      /\ revokedAgain' = rv.again
      /\ outputUrl' = NoUrl
      /\ error' = <<>>
      /\ UNCHANGED <<page, mounted, isProcessing, runCount, nextUrl, leaked,
                     batchVars, invokerVars, inputString, result, loading,
                     isMagickInitialized, magick, targetFormat, job, sample>>

\* A tool page is unmounted (the user leaves the page): the cleanup of its
\* mount effect runs
ToolUnmount ==
  LET rv == ToolEffectCleanup(Revocations)
  IN  /\ page \in {"base64image", "imageconvert"} /\ mounted
      /\ mounted' = FALSE
      /\ revoked' = rv.once
      /\ revokedAgain' = rv.again
      /\ ToolDiscarded
      /\ UNCHANGED <<page, runCount, nextUrl, leaked, batchVars, invokerVars,
                     magick, job, sample>>

\* The invokers before any call.
InvokerInit ==
  /\ resolved = NoGeometry
  /\ ffmpeg = NewFFmpeg
  /\ callers = <<IdleCaller>>
  /\ generation = 1
  /\ leaked = 0

Init ==
  /\ page \in {"video", "image"}
  /\ mounted = TRUE
  /\ selectedFiles = <<>>
  /\ width = Empty /\ height = Empty /\ fps = Empty
  /\ results = <<>>
  /\ isProcessing = FALSE
  /\ error = <<>>
  /\ run = IdleRun
  /\ runCount = 0
  /\ selCount = 0
  /\ probes = {}
  /\ listeners = <<>>
  /\ nextUrl = 1
  /\ revoked = {} /\ revokedAgain = {}
  /\ calls = 0
  /\ picked = <<>>
  /\ selPc = "none"
  /\ InvokerInit
  /\ ToolIdle

Picks == SeqsUpTo(FilesOf(page), MaxPick) \ {<<>>}

Next ==
  \/ \E files \in Picks : HandleFileChange(files)
  \/ \E files \in probes : ProbeDelivered(files)
  \/ \E v \in ParamValues : SetWidth(v)
  \/ \E v \in ParamValues : SetHeight(v)
  \/ \E v \in ParamValues : SetFps(v)
  \/ HandleResizeClick
  \/ VideoSizeProbed
  \/ VideoProbeStalled
  \/ EngineLog
  \/ \E outcome \in {"output", "null"} : EngineDone(outcome)
  \/ \E outcome \in {"ok", "noctx", "onerror"} : ImageLoaded(outcome)
  \/ \E ok \in BOOLEAN : ImageSerialized(ok)
  \/ HandleClear
  \/ Unmount

Spec == Init /\ [][Next]_vars

(***************************************************************************)
(* The selection alone: a FileList is drawn, handleFileChange handles it.  *)
(***************************************************************************)
SelInit ==
  /\ page \in {"video", "image"}
  /\ picked \in SeqsUpTo(SelFilesOf(page), MaxPickSel)
  /\ selPc = "picked"
  /\ mounted = TRUE
  /\ selectedFiles = <<>>
  /\ width = Empty /\ height = Empty /\ fps = Empty
  /\ results = <<>>
  /\ isProcessing = FALSE
  /\ error = <<>>
  /\ run = IdleRun
  /\ runCount = 0
  /\ selCount = 0
  /\ probes = {}
  /\ listeners = <<>>
  /\ nextUrl = 1
  /\ revoked = {} /\ revokedAgain = {}
  /\ calls = 0
  /\ InvokerInit
  /\ ToolIdle

SelectPicked == selPc = "picked" /\ HandleFileChange(picked)

SelNext ==
  \/ SelectPicked
  \/ \E files \in probes : ProbeDelivered(files)

SelectSpec == SelInit /\ [][SelNext]_vars

(***************************************************************************)
(* The page up to the first await of a run: selections, parameters, the    *)
(* Resize and Clear buttons, with every kind of value in the number inputs *)
(* (the engine and the canvas never answer).                               *)
(***************************************************************************)
ValNext ==
  \/ \E files \in Picks : HandleFileChange(files)
  \/ \E files \in probes : ProbeDelivered(files)
  \/ \E v \in ValParamValues : SetWidth(v)
  \/ \E v \in ValParamValues : SetHeight(v)
  \/ \E v \in ValParamValues : SetFps(v)
  \/ HandleResizeClick
  \/ HandleClear

ValidateSpec == Init /\ [][ValNext]_vars

(***************************************************************************)
(* The geometry alone: a file of some decoded size and the parameters of a *)
(* run that passes the validation are drawn, and the invoker of the page   *)
(* resolves the geometry for them.                                         *)
(***************************************************************************)
MaxDim == 4         \* largest original dimension and requested value

GeoParamValues == {Empty} \cup {<<n>> : n \in 1 .. MaxDim}

GeoFile(p, size) ==
  File(IF p = "video" THEN <<"a", "mp4">> ELSE <<"a", "png">>, size, TRUE)

GeoInit ==
  /\ page \in {"video", "image"}
  /\ \E ow \in 0 .. MaxDim, oh \in 0 .. MaxDim :
       selectedFiles = <<GeoFile(page, <<ow, oh>>)>>
  /\ width \in GeoParamValues
  /\ height \in GeoParamValues
  /\ fps \in IF page = "video" THEN GeoParamValues ELSE {Empty}
  /\ Validate(page, selectedFiles, width, height, fps) = "ok"
  /\ mounted = TRUE
  /\ results = <<>>
  /\ isProcessing = FALSE
  /\ error = <<>>
  /\ run = IdleRun
  /\ runCount = 0
  /\ selCount = 0
  /\ probes = {}
  /\ listeners = <<>>
  /\ nextUrl = 1
  /\ revoked = {} /\ revokedAgain = {}
  /\ calls = 0
  /\ picked = <<>>
  /\ selPc = "none"
  /\ InvokerInit
  /\ ToolIdle

\* resizeVideo / resizeImage called for the file with the parameters
Resolve ==
  /\ resolved = NoGeometry
  /\ resolved' = IF page = "video"
                   THEN VideoResolve(selectedFiles[1].size, width, height, fps)
                   ELSE ImageResolve(selectedFiles[1].size, width, height)
  /\ UNCHANGED <<page, mounted, selectedFiles, width, height, fps, results,
                 isProcessing, error, run, runCount, selCount, probes,
                 listeners, nextUrl, revoked, revokedAgain, calls, picked,
                 selPc, ffmpeg, callers, generation, leaked,
                 toolVars>>

GeoNext == Resolve

GeometrySpec == GeoInit /\ [][GeoNext]_vars

(***************************************************************************)
(* The video page and the shared engine: selections, runs, every await of  *)
(* resizeVideo, leaving the page and opening it again.  The runs are given *)
(* a width only (Spec covers heights and frame rates): with the files of   *)
(* VideoFiles both the return of the original and the engine are taken.    *)
(***************************************************************************)
EngineInit == Init /\ page = "video"

\* The picks of this specification: files the prober can size.
EnginePicks ==
  SeqsUpTo({f \in VideoFiles : f.decodable}, MaxPick) \ {<<>>}

EngineNext ==
  \/ \E files \in EnginePicks : HandleFileChange(files)
  \/ \E v \in ParamValues : SetWidth(v)
  \/ ResizeBlocked
  \/ ResizeClicked
  \/ \E g \in DOMAIN callers : SizeProbed(g)
  \/ \E g \in DOMAIN callers, ok \in BOOLEAN : CoreFetched(g, ok)
  \/ \E g \in DOMAIN callers, ok \in BOOLEAN : Loaded(g, ok)
  \/ \E g \in DOMAIN callers, ok \in BOOLEAN : InputWritten(g, ok)
  \/ \E g \in DOMAIN callers :
       \E outcome \in {"ok", "partial", "failed", "throw"} : Executed(g, outcome)
  \/ \E g \in DOMAIN callers : OutputRead(g)
  \/ \E g \in DOMAIN callers : OutputDeleted(g)
  \/ Unmount
  \/ Open

EngineSpec == EngineInit /\ [][EngineNext]_vars

(***************************************************************************)
(* The Base64 decode alone: the textarea holds a text written from a byte  *)
(* sequence (its standard encoding, with a prefix, in the URL-safe         *)
(* alphabet, without its padding, with whitespace, or damaged), and        *)
(* handleConvert is applied to it once.                                    *)
(***************************************************************************)
MaxBytes == 3       \* bytes in a payload drawn from ByteValues

ByteValues == {0, 251, 255}

WebpPayload == RiffSignature \o <<0, 0, 0, 0, 87, 69, 66, 80>>
WavePayload == RiffSignature \o <<0, 0, 0, 0, 87, 65, 86, 69>>

SignedPayloads ==
  {JpegSignature, PngSignature, GifSignature, WebpPayload, WavePayload,
   BmpSignature, Jp2Signature, <<137, 80>>}

Payloads == SeqsUpTo(ByteValues, MaxBytes) \cup SignedPayloads

Prefixes ==
  {NoPrefix, DataUri("image/png", 0), DataUri("image/gif", 1), DataUri("", 0)}

RECURSIVE btoa(_)
\* The standard Base64 encoding of a byte sequence, with its padding.
btoa(b) ==
  IF Len(b) = 0 THEN <<>>
  ELSE IF Len(b) = 1
    THEN <<b[1] \div 4, (b[1] % 4) * 16, ChPad, ChPad>>
  ELSE IF Len(b) = 2
    THEN <<b[1] \div 4, (b[1] % 4) * 16 + b[2] \div 16, (b[2] % 16) * 4, ChPad>>
  ELSE <<b[1] \div 4, (b[1] % 4) * 16 + b[2] \div 16,
         (b[2] % 16) * 4 + b[3] \div 64, b[3] % 64>>
       \o btoa(SubSeq(b, 4, Len(b)))

NotPad(c) == c # ChPad

toUrlSafe(text) ==
  [k \in DOMAIN text |-> IF text[k] = ChPlus THEN ChMinus
                         ELSE IF text[k] = ChSlash THEN ChUnderscore
                         ELSE text[k]]

Spaced(text) ==
  IF Len(text) = 0 THEN <<ChSpace>>
  ELSE <<text[1], ChSpace>> \o Tail(text) \o <<ChSpace>>

Damaged(text, damage) ==
  IF damage = "cut" /\ Len(text) > 0 THEN SubSeq(text, 1, Len(text) - 1)
  ELSE IF damage = "star" THEN Append(text, ChStar)
  ELSE IF damage = "extra" THEN Append(text, 0)
  ELSE text

Damages == {"none", "cut", "star", "extra"}

\* The text written from a sample.
Compose(sm) ==
  LET t1 == btoa(sm.bytes)
      t2 == IF sm.unpadded THEN SelectSeq(t1, NotPad) ELSE t1
      t3 == IF sm.urlSafe THEN toUrlSafe(t2) ELSE t2
      t4 == Damaged(t3, sm.damage)
      t5 == IF sm.spaced THEN Spaced(t4) ELSE t4
  IN  InputString(sm.prefix, t5)

Samples ==
  [bytes : Payloads, prefix : Prefixes, urlSafe : BOOLEAN,
   unpadded : BOOLEAN, spaced : BOOLEAN, damage : Damages]

\* The batch pages in a behaviour of a tool page.
BatchIdle ==
  /\ selectedFiles = <<>>
  /\ width = Empty /\ height = Empty /\ fps = Empty
  /\ results = <<>>
  /\ run = IdleRun
  /\ selCount = 0
  /\ probes = {}
  /\ listeners = <<>>
  /\ calls = 0
  /\ picked = <<>>
  /\ selPc = "none"
  /\ resolved = NoGeometry
  /\ ffmpeg = NewFFmpeg
  /\ callers = <<IdleCaller>>
  /\ generation = 1

\* A tool page after its first render.
ToolMounted ==
  /\ mounted = TRUE
  /\ isProcessing = FALSE
  /\ error = <<>>
  /\ runCount = 0
  /\ nextUrl = 1
  /\ revoked = {} /\ revokedAgain = {}
  /\ leaked = 0
  /\ result = NoResult
  /\ loading = FALSE
  /\ isMagickInitialized = FALSE
  /\ magick = "pending"
  /\ selectedFile = NoFile
  /\ targetFormat = "png"
  /\ outputUrl = NoUrl
  /\ job = NoJob

DecodeInit ==
  /\ page = "base64image"
  /\ sample \in Samples
  /\ inputString = Compose(sample)
  /\ ToolMounted
  /\ BatchIdle

DecodeConvert ==
  runCount = 0 /\ \E magickOk \in BOOLEAN : Base64HandleConvert(magickOk)

DecodeNext ==
  \/ DecodeConvert
  \/ \E ok \in BOOLEAN : ImageSizeProbed(ok)
  \/ \E ok \in BOOLEAN : MagickInitialized(ok)

DecodeSpec == DecodeInit /\ [][DecodeNext]_vars

(***************************************************************************)
(* The two tool pages: texts typed and decoded, files picked and           *)
(* converted, the Clear buttons, and the page left.                        *)
(***************************************************************************)
TypedInputs ==
  {InputString(NoPrefix, btoa(PngSignature)),
   InputString(NoPrefix, btoa(Jp2Signature)),
   InputString(NoPrefix, <<ChSpace>>),
   InputString(NoPrefix, <<ChStar>>)}

ConvertPicks == SeqsUpTo(ImageFiles, 1)

ToolInit ==
  /\ page \in {"base64image", "imageconvert"}
  /\ inputString = EmptyInput
  /\ sample = NoSample
  /\ ToolMounted
  /\ BatchIdle

ToolNext ==
  \/ \E ok \in BOOLEAN : MagickInitialized(ok)
  \/ \E text \in TypedInputs : SetInputString(text)
  \/ \E magickOk \in BOOLEAN : Base64HandleConvert(magickOk)
  \/ \E ok \in BOOLEAN : ImageSizeProbed(ok)
  \/ Base64HandleClear
  \/ \E files \in ConvertPicks : ConvertHandleFileChange(files)
  \/ \E format \in Range(targetFormats) : SetTargetFormat(format)
  \/ ConvertHandleConvert
  \/ \E outcome \in {"written", "throw"} : BufferRead(outcome)
  \/ ConvertHandleClear
  \/ ToolUnmount

ToolSpec == ToolInit /\ [][ToolNext]_vars

(***************************************************************************)
(* The claims.                                                             *)
(***************************************************************************)
Minted == 1 .. (nextUrl - 1)

\* The handles the items on screen carry.
Shown == IF mounted THEN Range(OutputUrls(results)) ELSE {}

Terminal == {"success", "error"}

\* C1: on the video page a handle is never revoked while the item it was
\* minted for is still part of the current results collection.
C1_NotRevokedWhileShown ==
  page = "video" => \A url \in Shown : url \notin revoked

\* C2: on both pages, once the item a handle was minted for is discarded (new
\* selection, clear, teardown, also teardown during a run), the handle has
\* been revoked: no minted handle outside the current results is un-revoked.
C2_DiscardedIsRevoked ==
  \A url \in Minted : url \notin Shown => url \in revoked

\* C3: URL.revokeObjectURL is never called a second time for a handle.
C3_RevokedOnce == revokedAgain = {}

\* C4: the step that starts a new run revokes the handles the items carried
\* from the previous run, and afterwards no pending item carries an output
\* payload or handle.
C4_RunSupersedes ==
  [][ (mounted /\ runCount' = runCount + 1) =>
        /\ \A url \in Shown : url \in revoked'
        /\ mounted' =>
             \A k \in DOMAIN results' :
               results'[k].status = "pending" =>
                 /\ results'[k].outputUrl = NoUrl
                 /\ results'[k].outputBlob = NoBlob ]_vars

Processings(res) == {k \in DOMAIN res : res[k].status = "processing"}

\* An await of the run is pending: a later task will continue the loop.
RunAwaiting == run.phase \in {"probe", "engine", "load", "toBlob"}

\* C5: within a run the items are processed one at a time and in index
\* order: never two items processing, and an item leaves pending only when
\* the item before it is terminal in the results collection.
C5_OneAtATimeInOrder ==
  [][ mounted' =>
        /\ Cardinality(Processings(results')) <= 1
        /\ (mounted /\ isProcessing) =>
             \A k \in DOMAIN results \cap DOMAIN results' :
               (k > 1 /\ results[k].status = "pending"
                      /\ results'[k].status # "pending")
                 => results'[k - 1].status \in Terminal ]_vars

\* The status changes of one item that the state machine allows.
StatusStep(from, to) ==
  \/ to = from
  \/ from = "pending" /\ to = "processing"
  \/ from = "processing" /\ to \in Terminal

\* C6: within one run (no new run, no new selection) the status of an item
\* only moves pending -> processing -> success | error, whatever callbacks
\* (progress events, size probes) arrive in between.
C6_StatusTransitions ==
  [][ (mounted /\ mounted' /\ isProcessing /\ RunAwaiting
         /\ runCount' = runCount /\ selCount' = selCount) =>
        \A k \in DOMAIN results \cap DOMAIN results' :
          StatusStep(results[k].status, results'[k].status) ]_vars

\* C7: when the conversion of item k fails (the task of the run that settles
\* it takes it from processing to error), the item gets status error, its
\* error text, and the text as the last line of its log; the items before
\* it are left as they are; and the run goes on with the later items: it is
\* awaiting the invoker for a later item, or it has ended with every later
\* item terminal.
C7_FailureIsolated ==
  [][ \A k \in DOMAIN results \cap DOMAIN results' :
        (mounted /\ mounted' /\ isProcessing /\ RunAwaiting /\ run.i = k
           /\ run' # run
           /\ results[k].status = "processing"
           /\ results'[k].status = "error")
          => /\ results'[k].error # NoError
             /\ results'[k].progressLog[Len(results'[k].progressLog)]
                  = ErrorLog(results'[k].error)
             /\ \A m \in 1 .. (k - 1) :
                  m \in DOMAIN results' /\ results'[m] = results[m]
             /\ IF isProcessing'
                  THEN RunAwaiting' /\ run'.i > k
                  ELSE \A m \in (k + 1) .. Len(selectedFiles) :
                         /\ m \in DOMAIN results'
                         /\ results'[m].status \in Terminal ]_vars

\* C8: a run that has started completes: while the processing flag is set
\* there is an await pending that continues the run (no exception has
\* escaped the orchestrator), also when Resize is clicked before the size
\* probes of the selection have delivered.
C8_RunCompletes == (mounted /\ isProcessing) => RunAwaiting

\* The inputs C9 is about: no file selected, no parameter given, or a given
\* parameter that is not strictly positive.
BadInput ==
  \/ Len(selectedFiles) = 0
  \/ width = Empty /\ height = Empty /\ fps = Empty
  \/ \E v \in {width, height, fps} : v # Empty /\ ~(v[1] > 0)

ValidNames ==
  { <<"a", "mp4">>, <<"b", "MOV">>, <<"a", "png">>, <<"b", "Jpeg">> }

\* picked[k] is accepted: its extension is allowed and fewer than the
\* maximum of allowed files come before it.
Accepted(k) ==
  /\ picked[k].name \in ValidNames
  /\ Cardinality({m \in 1 .. (k - 1) : picked[m].name \in ValidNames})
       < MAX_FILES(page)

\* The elements of s at the indices in idx, in their order.
RECURSIVE Restrict(_, _, _)
Restrict(s, idx, k) ==
  IF k > Len(s) THEN <<>>
  ELSE IF k \in idx THEN <<s[k]>> \o Restrict(s, idx, k + 1)
  ELSE Restrict(s, idx, k + 1)

\* C10: the selection is the accepted files in their original order, all
\* with an allowed extension and never more than the maximum; every other
\* picked file has exactly one rejection message, in order; max+k valid
\* files give max items and k messages; the results are never more either.
C10_SelectionCeiling ==
  /\ Len(selectedFiles) <= MAX_FILES(page)
  /\ Len(results) <= MAX_FILES(page)
  /\ selPc = "selected" =>
       LET acc == {k \in DOMAIN picked : Accepted(k)}
           rej == DOMAIN picked \ acc
           rejected == Restrict(picked, rej, 1)
       IN  /\ selectedFiles = Restrict(picked, acc, 1)
           /\ \A k \in DOMAIN selectedFiles :
                selectedFiles[k].name \in ValidNames
           /\ Len(error) = Len(rejected)
           /\ \A k \in DOMAIN error : error[k].name = rejected[k].name
           /\ Len(selectedFiles) + Len(error) = Len(picked)
           /\ (\A k \in DOMAIN picked : picked[k].name \in ValidNames) =>
                /\ Len(selectedFiles) = IF Len(picked) > MAX_FILES(page)
                                          THEN MAX_FILES(page) ELSE Len(picked)
                /\ Len(error) = Len(picked) - Len(selectedFiles)

\* C10 happens: more files than the image maximum were picked, the maximum
\* was accepted and each file in excess was reported.
C10_Witness ==
  /\ selPc = "selected" /\ page = "image"
  /\ Len(picked) > ImageMAX_FILES
  /\ Len(selectedFiles) = ImageMAX_FILES
  /\ Len(error) = Len(picked) - ImageMAX_FILES
  /\ \E k \in DOMAIN error : error[k].kind = "too-many"

\* The resizeVideo calls that are past the test of ffmpeg.loaded and have
\* not returned: they use the engine and its working files.
InFlight == {g \in DOMAIN callers : callers[g].phase \in EnginePhases}

\* C11: at every moment at most one resizeVideo call is in flight on the
\* shared engine, also when the video page is left during a run and opened
\* again.
C11_OneCallerOnEngine == Cardinality(InFlight) <= 1

\* The decoded size of the file the geometry is resolved for.
OriginalW == selectedFiles[1].size[1]
OriginalH == selectedFiles[1].size[2]

\* The geometry was resolved and handed to the canvas or to the engine.
Transformed == resolved.ret \in {"canvas", "engine"}

\* n, incremented by one if odd
EvenUp(n) == IF n % 2 = 1 THEN n + 1 ELSE n

\* C12: for positive original dimensions, when only a width is requested the
\* target handed on is that width and floor(width * originalH / originalW)
\* as height, and symmetrically when only a height is requested; on the
\* video path the derived dimension is incremented by one if odd (and the
\* requested one is handed on as it is or incremented likewise).
C12_AspectRatio ==
  (Transformed /\ OriginalW > 0 /\ OriginalH > 0) =>
    /\ (width # Empty /\ height = Empty) =>
         LET derived == (width[1] * OriginalH) \div OriginalW
         IN  IF page = "image"
               THEN /\ resolved.afterWidth = Num(width[1])
                    /\ resolved.afterHeight = Num(derived)
               ELSE /\ resolved.afterWidth \in {Num(width[1]), Num(EvenUp(width[1]))}
                    /\ resolved.afterHeight = Num(EvenUp(derived))
    /\ (height # Empty /\ width = Empty) =>
         LET derived == (height[1] * OriginalW) \div OriginalH
         IN  IF page = "image"
               THEN /\ resolved.afterHeight = Num(height[1])
                    /\ resolved.afterWidth = Num(derived)
               ELSE /\ resolved.afterHeight \in {Num(height[1]), Num(EvenUp(height[1]))}
                    /\ resolved.afterWidth = Num(EvenUp(derived))

\* The target the spec resolves for the request: the requested dimension,
\* and the other one derived by the aspect ratio when it is not requested.
TargetW == IF width # Empty THEN width[1]
           ELSE (OrZero(height) * OriginalW) \div OriginalH
TargetH == IF height # Empty THEN height[1]
           ELSE (OrZero(width) * OriginalH) \div OriginalW

\* C13: whenever the resolved target equals the original dimensions (and,
\* for video, no fps is requested), the invoker returns the original payload
\* and nothing is drawn or handed to the engine.
C13_NoOpWhenSameSize ==
  (resolved.ret # "none" /\ OriginalW > 0 /\ OriginalH > 0
     /\ (width # Empty \/ height # Empty) /\ fps = Empty
     /\ TargetW = OriginalW /\ TargetH = OriginalH)
    => resolved.ret = "original"

\* C14: a video call with only fps requested, on a video of positive
\* dimensions, hands the engine the original dimensions as scale, adjusted
\* only by the even rule.
C14_FpsOnlyKeepsSize ==
  (page = "video" /\ resolved.ret # "none"
     /\ OriginalW > 0 /\ OriginalH > 0
     /\ width = Empty /\ height = Empty /\ fps # Empty)
    => /\ resolved.ret = "engine"
       /\ resolved.afterWidth = Num(EvenUp(OriginalW))
       /\ resolved.afterHeight = Num(EvenUp(OriginalH))
       /\ resolved.fps = fps

\* C15: both dimensions of the scale handed to the engine are even, for
\* every requested width, height and fps and every positive original size.
C15_EvenScale ==
  (page = "video" /\ resolved.ret = "engine"
     /\ OriginalW > 0 /\ OriginalH > 0)
    => ~NotEven(resolved.afterWidth) /\ ~NotEven(resolved.afterHeight)

\* C20: no scale is handed to the engine for a video whose probed size has
\* a zero dimension: the call is rejected or bypasses the geometry.
C20_NoZeroOriginal ==
  (page = "video" /\ (OriginalW = 0 \/ OriginalH = 0))
    => resolved.ret # "engine"

\* The container of the payload an item carries: that of its file when the
\* payload is the original, the fixed one when it is the Blob of line 91.
Container(item) ==
  IF item.outputBlob = "original" THEN fileExt(item.file)
  ELSE defaultOutputExtension

\* C16: every payload of a video item with status success is an output of
\* the engine in the fixed container, which is the extension the download
\* name carries.
C16_VideoOutputIsMp4 ==
  (page = "video" /\ mounted) =>
    \A k \in DOMAIN results :
      results[k].status = "success" =>
        /\ results[k].outputBlob = "output"
        /\ Container(results[k]) = defaultOutputExtension

\* The resizeVideo call of caller g returns in this step.
Returns(g) ==
  /\ callers[g].phase \in EnginePhases
  /\ \/ callers'[g].phase \notin EnginePhases
     \/ callers'[g].i # callers[g].i

\* C17: when the exec of a call reported a non-zero status, the call
\* resolves with null and the orchestrator puts its item into status error:
\* the item of a failed transform never becomes success.
C17_FailedTransformIsError ==
  [][ \A g \in DOMAIN callers :
        (OnScreen(g) /\ callers[g].ret # 0 /\ Returns(g))
          => results'[callers[g].i].status = "error" ]_vars

\* C18: when a resizeVideo call that wrote into the working namespace
\* returns, whether it succeeded or failed, none of the names it wrote
\* (tmp.<ext>, tmp_output.mp4) is left in the namespace.
C18_WorkingFilesRemoved ==
  [][ \A g \in DOMAIN callers :
        Returns(g) =>
          \A name \in callers[g].wrote : name \notin Names(ffmpeg'.fs) ]_vars

\* C19: ffmpeg.load is never invoked once an initialization has succeeded
\* (ffmpeg.loaded is true): later calls reuse the loaded engine.
C19_LoadedOnce == ffmpeg.lateLoads = 0

\* C21: the size probe of a payload that cannot be decoded completes (the
\* run never stays at an await that nothing will continue), and on the image
\* page it completes as a failure: the item of such a file is in status
\* error, never pending, processing or success.
C21_DecodeFailureIsolated ==
  /\ run.phase # "stalled"
  /\ (page = "image" /\ mounted) =>
       \A k \in DOMAIN results :
         ~results[k].file.decodable => results[k].status = "error"

\* C22: every object URL created to probe or load a payload (getImageSize,
\* getVideoSize, the image load of resizeImage) has been revoked when the
\* operation completes.
C22_TransientHandlesReleased == leaked = 0

\* C27: during a video batch run a progress line of the engine goes to the
\* item being processed only: while the run is in progress, the progress
\* log of an item that has reached a terminal status does not change.
C27_LogToCurrentItemOnly ==
  [][(page = "video" /\ mounted /\ mounted' /\ isProcessing) =>
       \A k \in DOMAIN results \cap DOMAIN results' :
         results[k].status \in Terminal =>
           results'[k].progressLog = results[k].progressLog]_vars

\* C28: on the image page a non-empty results collection lines up with the
\* current selection: same length, and results[i] is about selectedFiles[i].
C28_ResultsMatchSelection ==
  (page = "image" /\ mounted /\ results # <<>>) =>
    /\ Len(results) = Len(selectedFiles)
    /\ \A k \in DOMAIN results : results[k].file = selectedFiles[k]

\* C29: on the image page at most one of the width and height fields is
\* non-empty, no image run holds both a target width and a target height,
\* and the validation of handleResizeClick blocks the pair.
C29_SingleAxis ==
  page = "image" =>
    /\ width = Empty \/ height = Empty
    /\ run.tw = Empty \/ run.th = Empty
    /\ Validate("image", <<File(<<"a", "png">>, <<2, 4>>, TRUE)>>,
                <<2>>, <<2>>, Empty) = "both"

\* An image run is under way on a value typed into one field.
C29_Witness ==
  /\ page = "image" /\ mounted /\ isProcessing
  /\ run.phase \in {"load", "toBlob"}
  /\ (run.tw # Empty \/ run.th # Empty)
  /\ (width # Empty \/ height # Empty)

\* C30: an item in status error when an image run starts is skipped by it:
\* it is never the item being processed, and it keeps its status error and
\* its error text for the whole run.
C30_ErrorItemsSkipped ==
  (page = "image" /\ mounted /\ run.phase \in {"load", "toBlob"}) =>
    \A k \in DOMAIN run.initial :
      run.initial[k].status = "error" =>
        /\ run.i # k
        /\ k \in DOMAIN results
        /\ results[k].status = "error"
        /\ results[k].error = run.initial[k].error

\* handleConvert has been applied to the text of the textarea and is over.
Converted ==
  page = "base64image" /\ mounted /\ runCount > 0 /\ job = NoJob /\ ~loading

\* The text is the sample's encoding as written, in one of the tolerated
\* forms.
Undamaged == sample.damage = "none"

\* The bytes of the sample are handed to the JP2 handling.
TakesJp2Path ==
  dataUriMime(sample.prefix) = "image/jp2"
    \/ startsWith(sample.bytes, Jp2Signature)

\* C23 as stated: for every byte sequence B, decoding the standard encoding
\* of B (bare, with a data-URI prefix, in the URL-safe alphabet, without its
\* padding, or with whitespace) gives a result whose bytes are B.
C23_RoundTripEveryB ==
  (Converted /\ Undamaged) =>
    result # NoResult /\ result[1].originalBlob = sample.bytes

\* C23, amended: the same for every text that is not blank (the empty byte
\* sequence without a prefix is reported as a missing input) whose bytes
\* are not handed to the JP2 handling; bytes handed to it come back as B
\* when the handling succeeds and as a reported error when it fails.
C23_RoundTrip ==
  (Converted /\ Undamaged /\ ~BlankInput(inputString)) =>
    \/ result # NoResult /\ result[1].originalBlob = sample.bytes
                         /\ result[1].size = Len(sample.bytes)
    \/ TakesJp2Path /\ result = NoResult /\ error # <<>>

\* A text with a prefix, in the URL-safe alphabet, without padding and with
\* whitespace, of bytes whose encoding uses '+' and '/', has been decoded.
C23_Witness ==
  /\ Converted /\ Undamaged
  /\ sample.prefix.uri /\ sample.urlSafe /\ sample.unpadded /\ sample.spaced
  /\ sample.bytes = <<251, 255>>
  /\ ChMinus \in Range(inputString.body)
  /\ ChUnderscore \in Range(inputString.body)
  /\ result # NoResult /\ result[1].originalBlob = <<251, 255>>

\* The Base64 text of the textarea as handleConvert cleans it.
Cleaned == toStandardAlphabet(removeWhitespace(inputString.body))

OutsideAlphabet ==
  \E k \in DOMAIN Cleaned : Cleaned[k] \notin Alphabet \cup {ChPad}

\* C24: a text that is blank, whose cleaned length is 1 modulo 4, or which
\* holds a character outside the alphabet, ends in a reported error: error
\* is set, there is no result, no handle was minted and loading is false;
\* a cleaned text of any other length is extended by '=' characters, 4 minus
\* its length modulo 4 of them, to a multiple of 4 before it is decoded.
C24_InvalidInputIsError ==
  /\ (Converted /\ (BlankInput(inputString) \/ Len(Cleaned) % 4 = 1
                      \/ OutsideAlphabet)) =>
       /\ error # <<>>
       /\ result = NoResult
       /\ nextUrl = 1
       /\ ~loading /\ job = NoJob
  /\ (page = "base64image" /\ Len(Cleaned) % 4 \in {2, 3}) =>
       /\ Len(padTo4(Cleaned)) % 4 = 0
       /\ Len(padTo4(Cleaned)) = Len(Cleaned) + (4 - (Len(Cleaned) % 4))
       /\ SubSeq(padTo4(Cleaned), 1, Len(Cleaned)) = Cleaned
       /\ \A k \in DOMAIN padTo4(Cleaned) :
            k > Len(Cleaned) => padTo4(Cleaned)[k] = ChPad
  /\ (page = "base64image" /\ Len(Cleaned) % 4 = 0) => padTo4(Cleaned) = Cleaned

\* A text of cleaned length 1 modulo 4 has been refused.
C24_Witness ==
  /\ Converted
  /\ ~BlankInput(inputString) /\ ~OutsideAlphabet
  /\ Len(Cleaned) % 4 = 1
  /\ error = <<ErrorLine("Invalid Base64 length", <<>>)>>
  /\ result = NoResult /\ nextUrl = 1

\* The type the claim gives to a payload without an explicit MIME type.
BySignature(bytes) ==
  IF startsWith(bytes, JpegSignature) THEN "image/jpeg"
  ELSE IF startsWith(bytes, PngSignature) THEN "image/png"
  ELSE IF startsWith(bytes, GifSignature) THEN "image/gif"
  ELSE IF startsWith(bytes, RiffSignature) /\ Len(bytes) >= 12
            /\ SubSeq(bytes, 9, 12) = <<87, 69, 66, 80>> THEN "image/webp"
  ELSE IF startsWith(bytes, BmpSignature) THEN "image/bmp"
  ELSE IF startsWith(bytes, Jp2Signature) THEN "image/jp2"
  ELSE "application/octet-stream"

\* C25: the format of a result is the MIME type the data-URI prefix names,
\* and without one the type of the signature the payload starts with.
C25_Classification ==
  (Converted /\ Undamaged /\ result # NoResult) =>
    result[1].format = IF dataUriMime(sample.prefix) # ""
                         THEN dataUriMime(sample.prefix)
                         ELSE BySignature(sample.bytes)

\* The handles a tool page still refers to.
ToolShown ==
  IF ~mounted THEN {}
  ELSE Range(ResultUrls(result))
         \cup (IF outputUrl # NoUrl THEN {outputUrl} ELSE {})
         \cup (IF job.kind = "size" THEN {job.url} ELSE {})

\* C26: on the tool pages every handle minted is either the handle of the
\* result on screen (or of the one being built) or revoked.
C26_ToolHandlesRevoked ==
  page \in {"base64image", "imageconvert"} =>
    \A u \in Minted : u \in revoked \/ u \in ToolShown

\* A resolved dimension is a number and at least 1.
AtLeastOne(x) == x.kind = "num" /\ x.twice >= 2

\* C31: for positive original dimensions and a positive requested width or
\* height, both target dimensions handed to the canvas or to the engine are
\* at least 1, and so are the dimensions the aspect-ratio formula resolves.
C31_TargetAtLeastOne ==
  (Transformed /\ OriginalW > 0 /\ OriginalH > 0
     /\ (width # Empty \/ height # Empty)) =>
    /\ AtLeastOne(resolved.afterWidth)
    /\ AtLeastOne(resolved.afterHeight)
    /\ AtLeastOne(resolved.resolvedWidth)
    /\ AtLeastOne(resolved.resolvedHeight)

====
